---- MODULE Spec2Model ----
(***************************************************************************)
(* Model of loco-gen's model generator, src/loco-gen/src/model.rs.         *)
(*                                                                         *)
(* One invocation of generate is a sequential state machine: the field   *)
(* loop (one step per field), the construction of the template variables,  *)
(* the two template renders, the optional two-step cargo loco-tool db     *)
(* pipeline and the final message collection.  The observable effects are  *)
(* the returned value, the rendered artifacts and the external steps that  *)
(* were started.                                                           *)
(***************************************************************************)
EXTENDS Integers, Sequences, FiniteSets, TLC

VARIABLES
    args,            \* arguments name, is_link and appinfo.app_name
    fields,          \* argument fields: &[(String, String)]
    migration_only,  \* argument migration_only: bool
    ts,              \* local ts, the clock reading of line 30
    run,             \* which of the caller's invocations this is: 1, 2, ...
    peer,            \* position of a concurrent invocation in the same working
                     \* directory, "none" when there is none
    pc,              \* position of the invocation inside generate
    idx,             \* index of the field the for loop examines next
    columns,         \* local columns
    references,      \* local references
    tplvars,         \* local vars (the json! value), None before line 64
    res1,            \* local res1, None before line 65
    res2,            \* local res2, None before line 66
    result,          \* the value generate returned, kind "none" while running
    files,           \* artifact tree: what each template's target holds
    renderLog,       \* the calls made to rrgen.generate, in order
    stepLog,         \* start/exit events of the external commands, in order
    db               \* external state the pipeline steps leave behind

\* the arguments and the timestamp never change during an invocation
inputs == <<args, fields, migration_only, ts, run>>

\* everything outside the process: the artifact tree and the external tools
world == <<files, renderLog, stepLog, db>>

vars == <<inputs, peer, pc, idx, columns, references, tplvars, res1, res2, result, world>>

-----------------------------------------------------------------------------
(* Bounds and input domains *)

MaxFields == 2

\* names the caller may declare that the code has no opinion about
FreeNames == {"user", "title"}

\* the four reserved names
ReservedNames == {"created_at", "updated_at", "create_at", "update_at"}

\* type tokens: two of the table, the reference forms (one with an empty
\* target), and two the table lacks (one of them beginning with "references")
TypeTokens == {"string", "int", "references", "references:people",
               "references:", "referencesx", "bogus"}

\* the tokens a reserved name is declared with: a table token, both
\* reference forms and an unknown token
ReservedTypeTokens == {"string", "references", "references:people", "bogus"}

FieldTokens ==
    [fname : FreeNames, ftype : TypeTokens] \cup
    [fname : ReservedNames, ftype : ReservedTypeTokens]

RECURSIVE SeqsUpTo(_, _)
SeqsUpTo(S, n) ==
    IF n = 0 THEN {<<>>}
    ELSE LET shorter == SeqsUpTo(S, n - 1)
         IN  shorter \cup {Append(s, e) : s \in {t \in shorter : Len(t) = n - 1}, e \in S}

\* the entity, link flag and package of the repository's own test (lines 144-150)
Args == {[name |-> "movies", is_link |-> FALSE, pkg_name |-> "saas"]}

\* the clock reading Utc::now() returns to the invocation
FirstTs == 1

\* what a failing external command reports ({err} of duct's run())
StepErrors == {"exited with code 1"}

\* what a failing render reports
RenderErrors == {"io error"}

None == [kind |-> "none"]

-----------------------------------------------------------------------------
(* Constants of the program *)

\* the list without the second spelling of the two names
IGNORE_FIELDS_OneSpelling == {"created_at", "updated_at"}

IGNORE_FIELDS == {"created_at", "updated_at", "create_at", "update_at"}

MODEL_T == "model.t"

MODEL_TEST_T == "model_test.t"

Templates == {MODEL_T, MODEL_TEST_T}

\* the type mapping table behind get_mappings(): token -> schema type
Mappings == ("string" :> "string_null") @@ ("int" :> "integer_null")

\* Mappings::schema_field: Some(schema type) or None
schema_field(token) ==
    IF token \in DOMAIN Mappings
    THEN [kind |-> "Some", value |-> Mappings[token]]
    ELSE None

\* Mappings::schema_fields rendered with {:?}
schema_fields == "[\"int\", \"string\"]"

-----------------------------------------------------------------------------
(* String helpers of the field loop *)

\* str::starts_with
starts_with(s, prefix) ==
    /\ Len(s) >= Len(prefix)
    /\ SubSeq(s, 1, Len(prefix)) = prefix

\* format!("{fname}_id")
fkey(fname) == fname \o "_id"

\* the slice taken from the length of "references", which keeps the colon
reference_target_KeepsColon(ftype) == SubSeq(ftype, Len("references") + 1, Len(ftype))

\* ftype["references:".len()..]
reference_target(ftype) == SubSeq(ftype, Len("references:") + 1, Len(ftype))

\* the Error::Message built at lines 54-58
type_not_found(ftype) ==
    [kind |-> "Err", variant |-> "Message",
     text |-> "type: " \o ftype \o " not found. try any of: " \o schema_fields]

Column(name, schema_type) == [name |-> name, schema_type |-> schema_type]

Reference(target, key) == [target_entity |-> target, foreign_key_column |-> key]

-----------------------------------------------------------------------------
Init ==
    /\ args \in Args
    /\ ts = FirstTs
    /\ run = 1
    /\ peer = "none"
    /\ fields \in SeqsUpTo(FieldTokens, MaxFields)
    /\ migration_only \in BOOLEAN
    /\ pc = "resolve"
    /\ idx = 1
    /\ columns = <<>>
    /\ references = <<>>
    /\ tplvars = None
    /\ res1 = None
    /\ res2 = None
    /\ result = None
    /\ files = [t \in Templates |-> None]
    /\ renderLog = <<>>
    /\ stepLog = <<>>
    /\ db = [migrated |-> FALSE, entities |-> FALSE]

InLoop == pc = "resolve" /\ idx <= Len(fields)

fname == fields[idx].fname

ftype == fields[idx].ftype

\* lines 35-41: a reserved field is warned about and skipped
IgnoreField ==
    /\ InLoop
    /\ fname \in IGNORE_FIELDS
    /\ idx' = idx + 1
    /\ UNCHANGED <<inputs, peer, pc, columns, references, tplvars, res1, res2, result, world>>

\* the reference recorded without its foreign-key column
ReferenceField_ForgetsColumn ==
    /\ InLoop
    /\ fname \notin IGNORE_FIELDS
    /\ ftype = "references"
    /\ references' = Append(references, Reference(fname, fkey(fname)))
    /\ idx' = idx + 1
    /\ UNCHANGED <<inputs, peer, pc, columns, tplvars, res1, res2, result, world>>

\* lines 42-46: the bare references token
ReferenceField ==
    /\ InLoop
    /\ fname \notin IGNORE_FIELDS
    /\ ftype = "references"
    /\ columns' = Append(columns, Column(fkey(fname), "integer"))
    /\ references' = Append(references, Reference(fname, fkey(fname)))
    /\ idx' = idx + 1
    /\ UNCHANGED <<inputs, peer, pc, tplvars, res1, res2, result, world>>

\* the prefix test written without the colon
QualifiedReferenceField_NoColon ==
    /\ InLoop
    /\ fname \notin IGNORE_FIELDS
    /\ ftype # "references"
    /\ starts_with(ftype, "references")
    /\ columns' = Append(columns, Column(fkey(fname), "integer"))
    /\ references' = Append(references, Reference(reference_target(ftype), fkey(fname)))
    /\ idx' = idx + 1
    /\ UNCHANGED <<inputs, peer, pc, tplvars, res1, res2, result, world>>

\* lines 47-50: the references:<Target> token
QualifiedReferenceField ==
    /\ InLoop
    /\ fname \notin IGNORE_FIELDS
    /\ ftype # "references"
    /\ starts_with(ftype, "references:")
    /\ columns' = Append(columns, Column(fkey(fname), "integer"))
    /\ references' = Append(references, Reference(reference_target(ftype), fkey(fname)))
    /\ idx' = idx + 1
    /\ UNCHANGED <<inputs, peer, pc, tplvars, res1, res2, result, world>>

IsScalarToken(t) == t # "references" /\ ~starts_with(t, "references:")

\* the column inserted at the front of the list instead of pushed at its end
ScalarField_Prepends ==
    /\ InLoop
    /\ fname \notin IGNORE_FIELDS
    /\ IsScalarToken(ftype)
    /\ schema_field(ftype).kind = "Some"
    /\ columns' = <<Column(fname, schema_field(ftype).value)>> \o columns
    /\ idx' = idx + 1
    /\ UNCHANGED <<inputs, peer, pc, references, tplvars, res1, res2, result, world>>

\* the raw type token pushed instead of the schema type it maps to
ScalarField_RawToken ==
    /\ InLoop
    /\ fname \notin IGNORE_FIELDS
    /\ IsScalarToken(ftype)
    /\ schema_field(ftype).kind = "Some"
    /\ columns' = Append(columns, Column(fname, ftype))
    /\ idx' = idx + 1
    /\ UNCHANGED <<inputs, peer, pc, references, tplvars, res1, res2, result, world>>

\* a column whose name is already in the list is not pushed again
ScalarField_SkipsDuplicate ==
    /\ InLoop
    /\ fname \notin IGNORE_FIELDS
    /\ IsScalarToken(ftype)
    /\ schema_field(ftype).kind = "Some"
    /\ columns' = IF \E c \in 1..Len(columns) : columns[c].name = fname
                  THEN columns
                  ELSE Append(columns, Column(fname, schema_field(ftype).value))
    /\ idx' = idx + 1
    /\ UNCHANGED <<inputs, peer, pc, references, tplvars, res1, res2, result, world>>

\* lines 51-60, lookup succeeded
ScalarField ==
    /\ InLoop
    /\ fname \notin IGNORE_FIELDS
    /\ IsScalarToken(ftype)
    /\ schema_field(ftype).kind = "Some"
    /\ columns' = Append(columns, Column(fname, schema_field(ftype).value))
    /\ idx' = idx + 1
    /\ UNCHANGED <<inputs, peer, pc, references, tplvars, res1, res2, result, world>>

\* the lookup failure treated like a reserved field: warn and continue
UnknownTypeField_Skipped ==
    /\ InLoop
    /\ fname \notin IGNORE_FIELDS
    /\ IsScalarToken(ftype)
    /\ schema_field(ftype).kind = "none"
    /\ idx' = idx + 1
    /\ UNCHANGED <<inputs, peer, pc, columns, references, tplvars, res1, res2, result, world>>

\* the table lookup done before the reserved-name check
UnknownTypeField_BeforeIgnoreCheck ==
    /\ InLoop
    /\ IsScalarToken(ftype)
    /\ schema_field(ftype).kind = "none"
    /\ result' = type_not_found(ftype)
    /\ pc' = "done"
    /\ UNCHANGED <<inputs, peer, idx, columns, references, tplvars, res1, res2, world>>

\* the fields visited in no particular order: any offending field still to
\* come may be the one reported
UnknownTypeField_AnyOrder ==
    /\ InLoop
    /\ \E i \in idx..Len(fields) :
          /\ fields[i].fname \notin IGNORE_FIELDS
          /\ IsScalarToken(fields[i].ftype)
          /\ schema_field(fields[i].ftype).kind = "none"
          /\ result' = type_not_found(fields[i].ftype)
    /\ pc' = "done"
    /\ UNCHANGED <<inputs, peer, idx, columns, references, tplvars, res1, res2, world>>

\* lines 53-59, lookup failed: ? returns the error from generate
UnknownTypeField ==
    /\ InLoop
    /\ fname \notin IGNORE_FIELDS
    /\ IsScalarToken(ftype)
    /\ schema_field(ftype).kind = "none"
    /\ result' = type_not_found(ftype)
    /\ pc' = "done"
    /\ UNCHANGED <<inputs, peer, idx, columns, references, tplvars, res1, res2, world>>

-----------------------------------------------------------------------------
(* Rendering: rrgen.generate and the engine's contract *)

\* what a template renders to: a function of the template and the variables
Rendered(t, v) == [kind |-> "Some", template |-> t, vars |-> v]

\* the engine's decision for a target that holds existing
RenderAction(existing, content) ==
    IF existing = None THEN "Created"
    ELSE IF existing = content THEN "Unchanged"
    ELSE "Skipped"

\* the human-readable message of an outcome
ArtifactMessage(t, action) == t \o ": " \o action

\* the outcome rrgen.generate returns for template t on success
ArtifactOutcome(t, existing, content) ==
    [kind |-> "Some", path |-> t, action |-> RenderAction(existing, content),
     message |-> ArtifactMessage(t, RenderAction(existing, content))]

\* the artifact tree after a successful render of template t
WriteArtifact(tree, t, content) ==
    IF RenderAction(tree[t], content) = "Created"
    THEN [tree EXCEPT ![t] = content]
    ELSE tree

\* the rrgen error converted by ?
render_error(e) == [kind |-> "Err", variant |-> "RRgen", text |-> e]

\* line 64: json!({...}) over the arguments and the two resolved lists
BuildVars ==
    /\ pc = "resolve"
    /\ idx > Len(fields)
    /\ tplvars' = [kind |-> "Some", name |-> args.name, ts |-> ts,
                   pkg_name |-> args.pkg_name, is_link |-> args.is_link,
                   columns |-> columns, references |-> references]
    /\ pc' = "render1"
    /\ UNCHANGED <<inputs, peer, idx, columns, references, res1, res2, result, world>>

\* line 65, Ok
RenderModel ==
    /\ pc = "render1"
    /\ res1' = ArtifactOutcome(MODEL_T, files[MODEL_T], Rendered(MODEL_T, tplvars))
    /\ files' = WriteArtifact(files, MODEL_T, Rendered(MODEL_T, tplvars))
    /\ renderLog' = Append(renderLog, [template |-> MODEL_T, ok |-> TRUE])
    /\ pc' = "render2"
    /\ UNCHANGED <<inputs, peer, idx, columns, references, tplvars, res2, result, stepLog, db>>

\* the render error swallowed: execution goes on to the second template
RenderModelFails_Continues ==
    /\ pc = "render1"
    /\ renderLog' = Append(renderLog, [template |-> MODEL_T, ok |-> FALSE])
    /\ pc' = "render2"
    /\ UNCHANGED <<inputs, peer, idx, columns, references, tplvars, res1, res2, result,
                   files, stepLog, db>>

\* line 65, Err: ? returns it
RenderModelFails ==
    /\ pc = "render1"
    /\ \E e \in RenderErrors : result' = render_error(e)
    /\ renderLog' = Append(renderLog, [template |-> MODEL_T, ok |-> FALSE])
    /\ pc' = "done"
    /\ UNCHANGED <<inputs, peer, idx, columns, references, tplvars, res1, res2, files, stepLog, db>>

\* line 66, Ok
RenderModelTest ==
    /\ pc = "render2"
    /\ res2' = ArtifactOutcome(MODEL_TEST_T, files[MODEL_TEST_T], Rendered(MODEL_TEST_T, tplvars))
    /\ files' = WriteArtifact(files, MODEL_TEST_T, Rendered(MODEL_TEST_T, tplvars))
    /\ renderLog' = Append(renderLog, [template |-> MODEL_TEST_T, ok |-> TRUE])
    /\ pc' = "pipeline"
    /\ UNCHANGED <<inputs, peer, idx, columns, references, tplvars, res1, result, stepLog, db>>

\* line 66, Err: ? returns it
RenderModelTestFails ==
    /\ pc = "render2"
    /\ \E e \in RenderErrors : result' = render_error(e)
    /\ renderLog' = Append(renderLog, [template |-> MODEL_TEST_T, ok |-> FALSE])
    /\ pc' = "done"
    /\ UNCHANGED <<inputs, peer, idx, columns, references, tplvars, res1, res2, files, stepLog, db>>

-----------------------------------------------------------------------------
(* The pipeline of lines 68-92 *)

DB_MIGRATE == "db migrate"

DB_ENTITIES == "db entities"

StepEvent(step, event) == [step |-> step, event |-> event]

\* the Error::Message of lines 78-80 (the parser accepts no grave accent in a
\* string, so the quotes around the details are written ')
migrate_error(err) ==
    [kind |-> "Err", variant |-> "Message",
     text |-> "failed to run loco db migration. error details: '" \o err \o "'"]

\* the Error::Message of lines 88-90
entities_error(err) ==
    [kind |-> "Err", variant |-> "Message",
     text |-> "failed to run loco db entities. error details: '" \o err \o "'"]

\* the io::Error of current_dir() converted by ?
io_error == [kind |-> "Err", variant |-> "IO", text |-> "current_dir"]

\* line 68 with migration_only set: the block is skipped
SkipPipeline ==
    /\ pc = "pipeline"
    /\ migration_only
    /\ pc' = "collect"
    /\ UNCHANGED <<inputs, peer, idx, columns, references, tplvars, res1, res2, result, world>>

\* the block entered without looking at migration_only
EnterPipeline_Unconditional ==
    /\ pc = "pipeline"
    /\ pc' = "migrate"
    /\ UNCHANGED <<inputs, peer, idx, columns, references, tplvars, res1, res2, result, world>>

\* lines 68-70: working directory and environment are captured
EnterPipeline ==
    /\ pc = "pipeline"
    /\ ~migration_only
    /\ pc' = "migrate"
    /\ UNCHANGED <<inputs, peer, idx, columns, references, tplvars, res1, res2, result, world>>

\* line 69, current_dir() failed: ? returns the error
CurrentDirFails ==
    /\ pc = "pipeline"
    /\ ~migration_only
    /\ result' = io_error
    /\ pc' = "done"
    /\ UNCHANGED <<inputs, peer, idx, columns, references, tplvars, res1, res2, world>>

\* the command spawned only while no other invocation has a command running
StartMigrate_TakesLock ==
    /\ pc = "migrate"
    /\ peer \notin {"migrate_wait", "entities_wait"}
    /\ stepLog' = Append(stepLog, StepEvent(DB_MIGRATE, "start"))
    /\ pc' = "migrate_wait"
    /\ UNCHANGED <<inputs, peer, idx, columns, references, tplvars, res1, res2, result,
                   files, renderLog, db>>

\* lines 72-76: cargo loco-tool db migrate is spawned
StartMigrate ==
    /\ pc = "migrate"
    /\ stepLog' = Append(stepLog, StepEvent(DB_MIGRATE, "start"))
    /\ pc' = "migrate_wait"
    /\ UNCHANGED <<inputs, peer, idx, columns, references, tplvars, res1, res2, result,
                   files, renderLog, db>>

\* line 76, run() returned Ok: the schema change is applied
MigrateSucceeds ==
    /\ pc = "migrate_wait"
    /\ stepLog' = Append(stepLog, StepEvent(DB_MIGRATE, "ok"))
    /\ db' = [db EXCEPT !.migrated = TRUE]
    /\ pc' = "entities"
    /\ UNCHANGED <<inputs, peer, idx, columns, references, tplvars, res1, res2, result,
                   files, renderLog>>

\* the failure of the first command ignored: the second one is run anyway
MigrateFails_Continues ==
    /\ pc = "migrate_wait"
    /\ stepLog' = Append(stepLog, StepEvent(DB_MIGRATE, "fail"))
    /\ pc' = "entities"
    /\ UNCHANGED <<inputs, peer, idx, columns, references, tplvars, res1, res2, result,
                   files, renderLog, db>>

\* the failed command tried again instead of reported
MigrateFails_Retries ==
    /\ pc = "migrate_wait"
    /\ stepLog' = Append(stepLog, StepEvent(DB_MIGRATE, "fail"))
    /\ pc' = "migrate"
    /\ UNCHANGED <<inputs, peer, idx, columns, references, tplvars, res1, res2, result,
                   files, renderLog, db>>

\* lines 76-81, run() returned Err: map_err and ?
MigrateFails ==
    /\ pc = "migrate_wait"
    /\ stepLog' = Append(stepLog, StepEvent(DB_MIGRATE, "fail"))
    /\ \E err \in StepErrors : result' = migrate_error(err)
    /\ pc' = "done"
    /\ UNCHANGED <<inputs, peer, idx, columns, references, tplvars, res1, res2,
                   files, renderLog, db>>

\* lines 82-86: cargo loco-tool db entities is spawned
StartEntities ==
    /\ pc = "entities"
    /\ stepLog' = Append(stepLog, StepEvent(DB_ENTITIES, "start"))
    /\ pc' = "entities_wait"
    /\ UNCHANGED <<inputs, peer, idx, columns, references, tplvars, res1, res2, result,
                   files, renderLog, db>>

\* line 86, run() returned Ok: the bindings are regenerated
EntitiesSucceeds ==
    /\ pc = "entities_wait"
    /\ stepLog' = Append(stepLog, StepEvent(DB_ENTITIES, "ok"))
    /\ db' = [db EXCEPT !.entities = TRUE]
    /\ pc' = "collect"
    /\ UNCHANGED <<inputs, peer, idx, columns, references, tplvars, res1, res2, result,
                   files, renderLog>>

\* a cleanup on failure: the rendered artifacts are removed before returning
EntitiesFails_RemovesArtifacts ==
    /\ pc = "entities_wait"
    /\ stepLog' = Append(stepLog, StepEvent(DB_ENTITIES, "fail"))
    /\ \E err \in StepErrors : result' = entities_error(err)
    /\ files' = [t \in Templates |-> None]
    /\ pc' = "done"
    /\ UNCHANGED <<inputs, peer, idx, columns, references, tplvars, res1, res2,
                   renderLog, db>>

\* the failed command is forgotten and spawned again, for as long as it fails
EntitiesFails_Retries ==
    /\ pc = "entities_wait"
    /\ stepLog' = SubSeq(stepLog, 1, Len(stepLog) - 1)
    /\ pc' = "entities"
    /\ UNCHANGED <<inputs, peer, idx, columns, references, tplvars, res1, res2, result,
                   files, renderLog, db>>

\* lines 86-91, run() returned Err: map_err and ?
EntitiesFails ==
    /\ pc = "entities_wait"
    /\ stepLog' = Append(stepLog, StepEvent(DB_ENTITIES, "fail"))
    /\ \E err \in StepErrors : result' = entities_error(err)
    /\ pc' = "done"
    /\ UNCHANGED <<inputs, peer, idx, columns, references, tplvars, res1, res2,
                   files, renderLog, db>>

-----------------------------------------------------------------------------
(* Message aggregation, lines 94-95 *)

RECURSIVE JoinLines(_)
JoinLines(msgs) ==
    IF Len(msgs) = 0 THEN ""
    ELSE IF Len(msgs) = 1 THEN msgs[1]
    ELSE msgs[1] \o "\n" \o JoinLines(Tail(msgs))

\* collect_messages: the outcomes' messages, newline-joined, in the order given
collect_messages(results) == JoinLines([i \in 1..Len(results) |-> results[i].message])

\* the two outcomes handed over in the opposite order
CollectMessages_Reversed ==
    /\ pc = "collect"
    /\ result' = [kind |-> "Ok", variant |-> "String",
                  text |-> collect_messages(<<res2, res1>>)]
    /\ pc' = "done"
    /\ UNCHANGED <<inputs, peer, idx, columns, references, tplvars, res1, res2, world>>

\* lines 94-95
CollectMessages ==
    /\ pc = "collect"
    /\ result' = [kind |-> "Ok", variant |-> "String",
                  text |-> collect_messages(<<res1, res2>>)]
    /\ pc' = "done"
    /\ UNCHANGED <<inputs, peer, idx, columns, references, tplvars, res1, res2, world>>

-----------------------------------------------------------------------------
Next ==
    \/ IgnoreField
    \/ ReferenceField
    \/ QualifiedReferenceField
    \/ ScalarField
    \/ UnknownTypeField
    \/ BuildVars
    \/ RenderModel
    \/ RenderModelFails
    \/ RenderModelTest
    \/ RenderModelTestFails
    \/ SkipPipeline
    \/ EnterPipeline
    \/ CurrentDirFails
    \/ StartMigrate
    \/ MigrateSucceeds
    \/ MigrateFails
    \/ StartEntities
    \/ EntitiesSucceeds
    \/ EntitiesFails
    \/ CollectMessages

Spec == Init /\ [][Next]_vars

-----------------------------------------------------------------------------
(* Vocabulary of the properties, written out independently of the operators *)
(* the actions use                                                         *)

IgnoreSet == {"created_at", "updated_at", "create_at", "update_at"}

ReferenceForms == {"references", "references:people", "references:"}

TableTokens == {"string", "int"}

ExpectedSchemaType == ("string" :> "string_null") @@ ("int" :> "integer_null")

ExpectedKey ==
    ("user" :> "user_id") @@ ("title" :> "title_id") @@
    ("created_at" :> "created_at_id") @@ ("updated_at" :> "updated_at_id") @@
    ("create_at" :> "create_at_id") @@ ("update_at" :> "update_at_id")

ExpectedTarget(f) ==
    IF f.ftype = "references" THEN f.fname
    ELSE IF f.ftype = "references:people" THEN "people"
    ELSE ""

IsIgnored(f) == f.fname \in IgnoreSet

IsReference(f) == ~IsIgnored(f) /\ f.ftype \in ReferenceForms

IsKnownScalar(f) == ~IsIgnored(f) /\ f.ftype \in TableTokens

IsUnknownScalar(f) == ~IsIgnored(f) /\ f.ftype \notin ReferenceForms \cup TableTokens

\* the field the loop is about to examine
AtField == pc = "resolve" /\ idx <= Len(fields)

IsPrefixOf(s, t) == Len(s) <= Len(t) /\ SubSeq(t, 1, Len(s)) = s

PristineTree == [t \in {"model.t", "model_test.t"} |-> [kind |-> "none"]]

-----------------------------------------------------------------------------
\* C1: a field that is neither ignored nor a reference and whose type token is
\* absent from the mapping table makes generate return an error, and nothing
\* built from the fields becomes observable: the template variables are never
\* built, no template is rendered, the artifact tree is untouched and no
\* pipeline step is started, however many earlier fields resolved.
C1_UnknownTypeIsAllOrNothing ==
    (\E i \in 1..Len(fields) : IsUnknownScalar(fields[i])) =>
        /\ pc \in {"resolve", "done"}
        /\ pc = "done" => (result.kind = "Err" /\ result.variant = "Message")
        /\ tplvars.kind = "none"
        /\ renderLog = <<>>
        /\ files = PristineTree
        /\ stepLog = <<>>

\* an earlier field resolved into a column, a later one had an unknown type,
\* and generate has returned
C1_Witness ==
    /\ pc = "done"
    /\ Len(fields) = 2
    /\ IsKnownScalar(fields[1])
    /\ IsUnknownScalar(fields[2])
    /\ Len(columns) = 1
    /\ result.kind = "Err"

\* C2: for a non-ignored field with token "references" or
\* "references:<Target>" the loop appends exactly one column (<field>_id,
\* "integer") and exactly one reference whose foreign_key_column is
\* <field>_id and whose target_entity is the field name (unqualified) or
\* <Target> (qualified).
C2_ReferenceAppendsKeyAndReference ==
    [][(AtField /\ IsReference(fields[idx])) =>
        /\ columns' = Append(columns,
                [name |-> ExpectedKey[fields[idx].fname], schema_type |-> "integer"])
        /\ references' = Append(references,
                [target_entity |-> ExpectedTarget(fields[idx]),
                 foreign_key_column |-> ExpectedKey[fields[idx].fname]])
        /\ idx' = idx + 1
        /\ pc' = "resolve"]_vars

\* both forms were resolved in one invocation
C2_Witness ==
    /\ pc = "render1"
    /\ columns = <<[name |-> "user_id", schema_type |-> "integer"],
                   [name |-> "title_id", schema_type |-> "integer"]>>
    /\ references = <<[target_entity |-> "user", foreign_key_column |-> "user_id"],
                      [target_entity |-> "people", foreign_key_column |-> "title_id"]>>

\* C3: a field whose name is in the IgnoreSet produces neither a column nor a
\* reference and does not fail resolution (whatever its type token), so no
\* column ever carries a name of the IgnoreSet and a field list of ignored
\* fields only resolves to two empty lists.
C3_IgnoredFieldsProduceNothing ==
    /\ [](\A i \in 1..Len(columns) : columns[i].name \notin IgnoreSet)
    /\ []((pc # "resolve" /\ \A i \in 1..Len(fields) : IsIgnored(fields[i])) =>
            /\ tplvars.kind = "Some"
            /\ tplvars.columns = <<>>
            /\ tplvars.references = <<>>)
    /\ [][(AtField /\ IsIgnored(fields[idx])) =>
            /\ columns' = columns
            /\ references' = references
            /\ idx' = idx + 1
            /\ pc' = "resolve"]_vars

\* two reserved fields, one of them with a type token the table lacks, and
\* a successful return
C3_Witness ==
    /\ pc = "done"
    /\ result.kind = "Ok"
    /\ Len(fields) = 2
    /\ fields[1].fname = "create_at"
    /\ fields[1].ftype = "bogus"
    /\ fields[2].fname = "updated_at"
    /\ tplvars.columns = <<>>

\* the columns and references a field list resolves to, field by field
RECURSIVE ExpectedColumns(_)
ExpectedColumns(fs) ==
    IF fs = <<>> THEN <<>>
    ELSE LET f == Head(fs)
             own == IF IsIgnored(f) THEN <<>>
                    ELSE IF f.ftype \in ReferenceForms
                         THEN <<[name |-> ExpectedKey[f.fname], schema_type |-> "integer"]>>
                         ELSE <<[name |-> f.fname, schema_type |-> ExpectedSchemaType[f.ftype]]>>
         IN  own \o ExpectedColumns(Tail(fs))

RECURSIVE ExpectedReferences(_)
ExpectedReferences(fs) ==
    IF fs = <<>> THEN <<>>
    ELSE LET f == Head(fs)
             own == IF IsReference(f)
                    THEN <<[target_entity |-> ExpectedTarget(f),
                            foreign_key_column |-> ExpectedKey[f.fname]]>>
                    ELSE <<>>
         IN  own \o ExpectedReferences(Tail(fs))

\* C4: when resolution succeeds, the column list handed to the templates is
\* exactly the per-field results of the non-ignored fields in declaration
\* order and the reference list exactly those of the reference fields in
\* declaration order; during resolution both lists only grow at their end.
C4_ListsFollowDeclarationOrder ==
    /\ [](tplvars.kind = "Some" =>
            /\ tplvars.columns = ExpectedColumns(fields)
            /\ tplvars.references = ExpectedReferences(fields))
    /\ [][IsPrefixOf(columns, columns') /\ IsPrefixOf(references, references')]_vars

\* a scalar field declared before a reference field: two different columns,
\* in that order, reached the templates
C4_Witness ==
    /\ tplvars.kind = "Some"
    /\ fields = <<[fname |-> "title", ftype |-> "string"],
                  [fname |-> "user", ftype |-> "references:people"]>>
    /\ tplvars.columns = <<[name |-> "title", schema_type |-> "string_null"],
                           [name |-> "user_id", schema_type |-> "integer"]>>
    /\ renderLog # <<>>

\* C5: a non-ignored field whose token is no reference form and is in the
\* mapping table appends exactly one column (field name, mapped schema type)
\* and no reference; a list of only such fields yields one column per field
\* and no reference, and generate succeeds when both renders succeed and the
\* pipeline is opted out.
C5_KnownScalarAppendsOneColumn ==
    /\ [][(AtField /\ IsKnownScalar(fields[idx])) =>
            /\ columns' = Append(columns,
                    [name |-> fields[idx].fname,
                     schema_type |-> ExpectedSchemaType[fields[idx].ftype]])
            /\ references' = references
            /\ idx' = idx + 1
            /\ pc' = "resolve"]_vars
    /\ []((/\ pc = "done"
           /\ \A i \in 1..Len(fields) : IsKnownScalar(fields[i])
           /\ migration_only
           /\ \A i \in 1..Len(renderLog) : renderLog[i].ok) =>
            /\ result.kind = "Ok"
            /\ Len(tplvars.columns) = Len(fields)
            /\ tplvars.references = <<>>)

\* the repository's own test: fields [("title", "string")], pipeline opted out
C5_Witness ==
    /\ pc = "done"
    /\ fields = <<[fname |-> "title", ftype |-> "string"]>>
    /\ migration_only
    /\ result.kind = "Ok"
    /\ tplvars.columns = <<[name |-> "title", schema_type |-> "string_null"]>>
    /\ tplvars.references = <<>>

-----------------------------------------------------------------------------
MigrateStart == [step |-> "db migrate", event |-> "start"]

MigrateOk == [step |-> "db migrate", event |-> "ok"]

MigrateFail == [step |-> "db migrate", event |-> "fail"]

EntitiesStart == [step |-> "db entities", event |-> "start"]

EntitiesFail == [step |-> "db entities", event |-> "fail"]

Logged(e) == \E i \in 1..Len(stepLog) : stepLog[i] = e

PristineDb == [migrated |-> FALSE, entities |-> FALSE]

\* C6: the pipeline runs 'db migrate' first and 'db entities' second:
\* 'db entities' starts only after 'db migrate' has completed successfully,
\* never after it failed, and the error generate returns names the step that
\* failed.
C6_MigrateBeforeEntities ==
    /\ stepLog # <<>> => stepLog[1] = MigrateStart
    /\ \A i \in 1..Len(stepLog) :
          stepLog[i] = EntitiesStart => \E j \in 1..(i - 1) : stepLog[j] = MigrateOk
    /\ Logged(MigrateFail) =>
          /\ ~Logged(EntitiesStart)
          /\ pc = "done"
          /\ result.kind = "Err"
          /\ IsPrefixOf("failed to run loco db migration.", result.text)
    /\ Logged(EntitiesFail) =>
          /\ pc = "done"
          /\ result.kind = "Err"
          /\ IsPrefixOf("failed to run loco db entities.", result.text)

\* both steps ran in order and the second one failed
C6_Witness ==
    /\ pc = "done"
    /\ stepLog = <<MigrateStart, MigrateOk, EntitiesStart, EntitiesFail>>
    /\ result.kind = "Err"

\* C7: with migration_only set no pipeline step is ever started, whatever the
\* steps would have done, and on success the returned message is the
\* aggregate of the two rendering messages alone.
C7_OptOutStartsNoStep ==
    migration_only =>
        /\ stepLog = <<>>
        /\ db = PristineDb
        /\ pc \notin {"migrate", "migrate_wait", "entities", "entities_wait"}
        /\ (pc = "done" /\ result.kind = "Ok") =>
              result.text = res1.message \o "\n" \o res2.message

\* an opted-out invocation returned successfully after both renders
C7_Witness ==
    /\ migration_only
    /\ pc = "done"
    /\ result.kind = "Ok"
    /\ Len(renderLog) = 2
    /\ stepLog = <<>>

\* C8: a failed render makes generate return the render error; it is the
\* last render of the invocation (after a failure of the schema template the
\* test template is never rendered) and no pipeline step runs, also when
\* migration_only is false.
C8_RenderFailureAborts ==
    \A i \in 1..Len(renderLog) :
        ~renderLog[i].ok =>
            /\ i = Len(renderLog)
            /\ pc = "done"
            /\ result.kind = "Err"
            /\ result.variant = "RRgen"
            /\ stepLog = <<>>
            /\ db = PristineDb

\* the schema template failed in an invocation that had asked for the pipeline
C8_Witness ==
    /\ ~migration_only
    /\ pc = "done"
    /\ renderLog = <<[template |-> "model.t", ok |-> FALSE]>>
    /\ result.kind = "Err"
    /\ fields # <<>>

\* C9: when a pipeline step fails generate returns an error, both artifacts
\* are still what rendering wrote, and what a completed 'db migrate' did is
\* not undone: nothing after the renders touches the artifact tree.
C9_NoRollbackAfterStepFailure ==
    /\ []((Logged(MigrateFail) \/ Logged(EntitiesFail)) =>
            /\ pc = "done"
            /\ result.kind = "Err"
            /\ \A t \in {"model.t", "model_test.t"} :
                  files[t] = [kind |-> "Some", template |-> t, vars |-> tplvars]
            /\ Logged(MigrateOk) => db.migrated)
    /\ [][(pc \in {"pipeline", "migrate", "migrate_wait", "entities", "entities_wait"}) =>
            /\ files' = files
            /\ (db.migrated => (db').migrated)]_vars

\* 'db migrate' completed, 'db entities' failed, and generate has returned
C9_Witness ==
    /\ pc = "done"
    /\ Logged(MigrateOk)
    /\ Logged(EntitiesFail)
    /\ db.migrated
    /\ files["model.t"].kind = "Some"
    /\ files["model_test.t"].kind = "Some"
    /\ Len(tplvars.columns) = 2

\* C10: on success the report is the message of the schema template's outcome
\* followed by the message of the test template's outcome, and nothing else,
\* whether the pipeline ran or not.
C10_ReportIsRenderMessagesInOrder ==
    (pc = "done" /\ result.kind = "Ok") =>
        /\ res1.path = "model.t"
        /\ res2.path = "model_test.t"
        /\ result.text = res1.message \o "\n" \o res2.message
        /\ result.text = "model.t: Created\nmodel_test.t: Created"

\* a successful return after both pipeline steps ran
C10_Witness ==
    /\ pc = "done"
    /\ result.kind = "Ok"
    /\ ~migration_only
    /\ stepLog = <<MigrateStart, MigrateOk, EntitiesStart,
                   [step |-> "db entities", event |-> "ok"]>>

-----------------------------------------------------------------------------
RendersOf(t) == {i \in 1..Len(renderLog) : renderLog[i].template = t}

StartsOf(s) == {i \in 1..Len(stepLog) : stepLog[i] = [step |-> s, event |-> "start"]}

\* C11: nothing is retried: within one invocation each template is rendered at
\* most once and each pipeline step is started at most once, and the first
\* failed render or failed step is the last thing the invocation does before
\* it returns a single error.
C11_NoRetry ==
    /\ \A t \in {"model.t", "model_test.t"} : Cardinality(RendersOf(t)) <= 1
    /\ \A s \in {"db migrate", "db entities"} : Cardinality(StartsOf(s)) <= 1
    /\ \A i \in 1..Len(renderLog) :
          ~renderLog[i].ok =>
              /\ i = Len(renderLog)
              /\ stepLog = <<>>
              /\ pc = "done"
              /\ result.kind = "Err"
    /\ \A i \in 1..Len(stepLog) :
          stepLog[i].event = "fail" =>
              /\ i = Len(stepLog)
              /\ pc = "done"
              /\ result.kind = "Err"

\* 'db migrate' was started once, failed, and generate returned the error
C11_Witness ==
    /\ pc = "done"
    /\ stepLog = <<MigrateStart, MigrateFail>>
    /\ Len(renderLog) = 2
    /\ result.kind = "Err"

-----------------------------------------------------------------------------
\* the fields the loop has dealt with so far
Processed == {i \in 1..Len(fields) : i < idx}

\* C13: after every processed field the two lists are in lock-step: there are
\* as many references as reference fields processed, one column per
\* non-ignored field processed, every reference's foreign_key_column names a
\* column of schema type "integer", and a step appends a reference exactly
\* when it appends that reference's foreign-key column.
C13_ListsInLockStep ==
    /\ [](/\ Len(references) = Cardinality({i \in Processed : IsReference(fields[i])})
          /\ Len(columns) = Cardinality({i \in Processed : ~IsIgnored(fields[i])})
          /\ \A r \in 1..Len(references) :
                \E c \in 1..Len(columns) :
                    columns[c] = [name |-> references[r].foreign_key_column,
                                  schema_type |-> "integer"])
    /\ [][/\ (references' # references) =>
                /\ Len(references') = Len(references) + 1
                /\ columns' = Append(columns,
                        [name |-> references'[Len(references')].foreign_key_column,
                         schema_type |-> "integer"])
          /\ (AtField /\ IsReference(fields[idx]) /\ columns' # columns) =>
                references' # references
          /\ (AtField /\ ~IsReference(fields[idx])) =>
                references' = references]_vars

\* a scalar column and a reference with its key column, to be followed by the
\* construction of the template variables
C13_Witness ==
    /\ pc = "resolve"
    /\ idx = 3
    /\ Len(columns) = 2
    /\ columns[1].schema_type = "integer_null"
    /\ references = <<[target_entity |-> "people", foreign_key_column |-> "title_id"]>>

-----------------------------------------------------------------------------
\* C15: the reserved-name check comes before any look at the type token: a
\* reserved field whose token is unknown to the table does not fail
\* resolution, and one whose token is "references" or "references:<Target>"
\* produces neither a foreign-key column nor a reference.
C15_IgnoreCheckComesFirst ==
    /\ [][(AtField /\ fields[idx].fname \in IgnoreSet
                  /\ fields[idx].ftype \in {"bogus", "references", "references:people"}) =>
            /\ pc' = "resolve"
            /\ result' = result
            /\ columns' = columns
            /\ references' = references]_vars
    /\ []((\A i \in 1..Len(fields) : fields[i].fname \in IgnoreSet) =>
            /\ result.kind = "Err" => ~IsPrefixOf("type: ", result.text)
            /\ columns = <<>>
            /\ references = <<>>)

\* a reserved field with an unknown token and one with a reference token were
\* both passed over and the empty lists were rendered
C15_Witness ==
    /\ fields = <<[fname |-> "created_at", ftype |-> "bogus"],
                  [fname |-> "update_at", ftype |-> "references:people"]>>
    /\ pc = "done"
    /\ result.kind = "Ok"
    /\ tplvars.columns = <<>>
    /\ tplvars.references = <<>>

\* the first field, in declaration order, that makes resolution fail
FirstOffender ==
    CHOOSE i \in 1..Len(fields) :
        /\ IsUnknownScalar(fields[i])
        /\ \A j \in 1..(i - 1) : ~IsUnknownScalar(fields[j])

\* C16: with several unknown type tokens the error carries the token of the
\* first offending field in declaration order, and the loop never gets to a
\* field declared after it.
C16_FirstUnknownTokenIsReported ==
    (\E i \in 1..Len(fields) : IsUnknownScalar(fields[i])) =>
        /\ idx <= FirstOffender
        /\ pc = "done" =>
              /\ idx = FirstOffender
              /\ result.kind = "Err"
              /\ IsPrefixOf("type: " \o fields[FirstOffender].ftype \o " not found.",
                            result.text)

\* two different unknown tokens: the first one is in the error
C16_Witness ==
    /\ fields = <<[fname |-> "user", ftype |-> "bogus"],
                  [fname |-> "title", ftype |-> "referencesx"]>>
    /\ pc = "done"
    /\ idx = 1
    /\ result.text = "type: bogus not found. try any of: [\"int\", \"string\"]"

-----------------------------------------------------------------------------
FieldsNamed(n) == {i \in 1..Len(fields) : fields[i].fname = n}

\* C17: field names are not checked for uniqueness: every non-ignored field
\* yields its own column even when an earlier field had the same name, two
\* reference fields of one name yield two <name>_id columns and two
\* references, and a repeated name never makes resolution fail.
C17_DuplicateNamesPassThrough ==
    /\ (tplvars.kind = "Some") =>
          \A n \in {"user", "title"} :
              /\ Cardinality({c \in 1..Len(tplvars.columns) :
                                 tplvars.columns[c].name \in {n, ExpectedKey[n]}})
                    = Cardinality(FieldsNamed(n))
              /\ Cardinality({r \in 1..Len(tplvars.references) :
                                 tplvars.references[r].foreign_key_column = ExpectedKey[n]})
                    = Cardinality({i \in FieldsNamed(n) : IsReference(fields[i])})
    /\ (pc # "resolve" /\ \A i \in 1..Len(fields) : ~IsUnknownScalar(fields[i])) =>
          tplvars.kind = "Some"

\* the same reference field declared twice: two identical key columns and
\* two identical references reached the templates
C17_Witness ==
    /\ fields = <<[fname |-> "user", ftype |-> "references"],
                  [fname |-> "user", ftype |-> "references"]>>
    /\ tplvars.kind = "Some"
    /\ tplvars.columns = <<[name |-> "user_id", schema_type |-> "integer"],
                           [name |-> "user_id", schema_type |-> "integer"]>>
    /\ Len(tplvars.references) = 2
    /\ tplvars.references[1] = tplvars.references[2]
    /\ renderLog # <<>>

\* C18: a token is a reference exactly when it is "references" or begins
\* with "references:"; any other token, "referencesx" included, is looked up
\* in the mapping table as a scalar, and "references:" yields a reference
\* with an empty target_entity instead of an error.
C18_ReferenceTokensAreExact ==
    [][(AtField /\ fields[idx].fname \notin IgnoreSet) =>
        /\ (references' # references) <=>
              fields[idx].ftype \in {"references", "references:people", "references:"}
        /\ fields[idx].ftype \in {"referencesx", "bogus"} =>
              /\ pc' = "done"
              /\ result'.kind = "Err"
              /\ IsPrefixOf("type: " \o fields[idx].ftype \o " not found.", result'.text)
        /\ fields[idx].ftype \in {"string", "int"} =>
              columns' = Append(columns,
                    [name |-> fields[idx].fname,
                     schema_type |-> ExpectedSchemaType[fields[idx].ftype]])
        /\ fields[idx].ftype = "references:" =>
              /\ pc' = "resolve"
              /\ result' = result
              /\ references' = Append(references,
                    [target_entity |-> "",
                     foreign_key_column |-> ExpectedKey[fields[idx].fname]])]_vars

\* "references:" became a reference with an empty target, then "referencesx"
\* was refused by the table
C18_Witness ==
    /\ fields = <<[fname |-> "user", ftype |-> "references:"],
                  [fname |-> "title", ftype |-> "referencesx"]>>
    /\ pc = "done"
    /\ references = <<[target_entity |-> "", foreign_key_column |-> "user_id"]>>
    /\ result.text = "type: referencesx not found. try any of: [\"int\", \"string\"]"

-----------------------------------------------------------------------------
(* A caller that invokes generate again with the same arguments *)

MaxRuns == 2

\* a field list for the runs that are about more than one invocation: every
\* branch of the loop is taken by one of these
FewFieldTokens ==
    {[fname |-> "user", ftype |-> "string"],
     [fname |-> "title", ftype |-> "references"],
     [fname |-> "title", ftype |-> "references:people"],
     [fname |-> "user", ftype |-> "bogus"],
     [fname |-> "created_at", ftype |-> "string"]}

InitFew ==
    /\ args \in Args
    /\ ts = FirstTs
    /\ run = 1
    /\ peer = "none"
    /\ fields \in SeqsUpTo(FewFieldTokens, MaxFields)
    /\ migration_only \in BOOLEAN
    /\ pc = "resolve"
    /\ idx = 1
    /\ columns = <<>>
    /\ references = <<>>
    /\ tplvars = None
    /\ res1 = None
    /\ res2 = None
    /\ result = None
    /\ files = [t \in Templates |-> None]
    /\ renderLog = <<>>
    /\ stepLog = <<>>
    /\ db = [migrated |-> FALSE, entities |-> FALSE]

\* the two lists survive from the previous invocation, as if they were
\* declared outside the function
Reinvoke_KeepsLists ==
    /\ pc = "done"
    /\ run < MaxRuns
    /\ \A t \in Templates : files[t] # None
    /\ run' = run + 1
    /\ ts' \in {ts, ts + 1}
    /\ pc' = "resolve"
    /\ idx' = 1
    /\ tplvars' = None
    /\ res1' = None
    /\ res2' = None
    /\ result' = None
    /\ renderLog' = <<>>
    /\ stepLog' = <<>>
    /\ UNCHANGED <<args, fields, migration_only, peer, columns, references, files, db>>

\* lines 21-33 entered again with identical arguments once both artifacts
\* exist: Utc::now() is read anew (a wall clock: the reading is later, or the
\* same after an adjustment or within its resolution), the locals start
\* empty, the artifact tree and the database are as the last run left them;
\* the two logs are those of the invocation in progress
Reinvoke ==
    /\ pc = "done"
    /\ run < MaxRuns
    /\ \A t \in Templates : files[t] # None
    /\ run' = run + 1
    /\ ts' \in {ts, ts + 1}
    /\ pc' = "resolve"
    /\ idx' = 1
    /\ columns' = <<>>
    /\ references' = <<>>
    /\ tplvars' = None
    /\ res1' = None
    /\ res2' = None
    /\ result' = None
    /\ renderLog' = <<>>
    /\ stepLog' = <<>>
    /\ UNCHANGED <<args, fields, migration_only, peer, files, db>>

NextRerun ==
    \/ Next
    \/ Reinvoke

SpecRerun == InitFew /\ [][NextRerun]_vars

Outcomes == {r \in {res1, res2} : r.kind = "Some"}

\* C12 as stated: a second invocation with identical inputs against the
\* generated, unmodified artifact tree gets Unchanged for every template.
C12_RerunIsUnchanged ==
    run > 1 => \A r \in Outcomes : r.action = "Unchanged"

\* C12, amended: a later invocation with identical inputs against the
\* generated, unmodified artifact tree gets Unchanged for every template and
\* writes nothing, provided it reads the same timestamp as the invocation that
\* generated the tree (ts is part of the context the templates are given).
C12_RerunWithSameTimestampIsUnchanged ==
    /\ []((run > 1 /\ \A t \in {"model.t", "model_test.t"} : files[t].vars.ts = ts) =>
            \A r \in Outcomes : r.action = "Unchanged")
    /\ [][(run > 1 /\ run' = run) => files' = files]_vars

\* the second invocation read the timestamp of the first and both of its
\* renders came back Unchanged
C12_Witness ==
    /\ run = 2
    /\ ts = 1
    /\ pc = "done"
    /\ result.kind = "Ok"
    /\ res1.action = "Unchanged"
    /\ res2.action = "Unchanged"
    /\ Len(tplvars.columns) = 2

-----------------------------------------------------------------------------
(* A second invocation in the same working directory, migration_only false, *)
(* that has rendered its templates and is at line 72                        *)

PeerFrame == <<inputs, pc, idx, columns, references, tplvars, res1, res2, result,
               files, renderLog, stepLog>>

\* lines 72-76 of the other invocation
PeerStartMigrate ==
    /\ peer = "migrate"
    /\ peer' = "migrate_wait"
    /\ UNCHANGED <<PeerFrame, db>>

\* lines 76-81 of the other invocation: run() returns Ok or Err
PeerMigrateReturns ==
    /\ peer = "migrate_wait"
    /\ \/ /\ peer' = "entities"
          /\ db' = [db EXCEPT !.migrated = TRUE]
       \/ /\ peer' = "done"
          /\ db' = db
    /\ UNCHANGED PeerFrame

\* lines 82-86 of the other invocation
PeerStartEntities ==
    /\ peer = "entities"
    /\ peer' = "entities_wait"
    /\ UNCHANGED <<PeerFrame, db>>

\* lines 86-95 of the other invocation: run() returns Ok or Err
PeerEntitiesReturns ==
    /\ peer = "entities_wait"
    /\ \/ /\ peer' = "done"
          /\ db' = [db EXCEPT !.entities = TRUE]
       \/ /\ peer' = "done"
          /\ db' = db
    /\ UNCHANGED PeerFrame

InitConc ==
    /\ args \in Args
    /\ ts = FirstTs
    /\ run = 1
    /\ peer = "migrate"
    /\ fields \in SeqsUpTo(FewFieldTokens, MaxFields)
    /\ migration_only \in BOOLEAN
    /\ pc = "resolve"
    /\ idx = 1
    /\ columns = <<>>
    /\ references = <<>>
    /\ tplvars = None
    /\ res1 = None
    /\ res2 = None
    /\ result = None
    /\ files = [t \in Templates |-> None]
    /\ renderLog = <<>>
    /\ stepLog = <<>>
    /\ db = [migrated |-> FALSE, entities |-> FALSE]

NextConc ==
    \/ Next
    \/ PeerStartMigrate
    \/ PeerMigrateReturns
    \/ PeerStartEntities
    \/ PeerEntitiesReturns

SpecConc == InitConc /\ [][NextConc]_vars

\* C14: concurrent invocations are not coordinated: no lock of generate keeps
\* an invocation from starting its next command while the other invocation
\* has a command running or stands between its two commands, so the two
\* 'db migrate' runs can overlap and one invocation's command can run between
\* the other's 'db migrate' and 'db entities'.
C14_NoLockBetweenInvocations ==
    /\ pc = "migrate" => ENABLED StartMigrate
    /\ pc = "entities" => ENABLED StartEntities
    /\ peer = "migrate" => ENABLED PeerStartMigrate
    /\ peer = "entities" => ENABLED PeerStartEntities

\* both invocations have 'db migrate' running at the same time
C14_Witness ==
    /\ ~migration_only
    /\ pc = "migrate_wait"
    /\ peer = "migrate_wait"

-----------------------------------------------------------------------------
(* Progress: generate is sequential code, so whenever a step is possible one *)
(* is taken, given that every render and every command returns              *)

SpecLive == Init /\ [][Next]_vars /\ WF_vars(Next)

\* the state of the pipeline as the design notes name it
Stage ==
    IF pc = "done" THEN (IF result.kind = "Ok" THEN "Succeeded" ELSE "Failed")
    ELSE IF stepLog = <<>> THEN "NotStarted"
    ELSE IF stepLog[Len(stepLog)].step = "db migrate" THEN "RunningMigrate"
    ELSE "RunningEntities"

StageOrder ==
    {<<"NotStarted", "RunningMigrate">>, <<"RunningMigrate", "RunningEntities">>,
     <<"RunningEntities", "Succeeded">>,
     <<"NotStarted", "Failed">>, <<"RunningMigrate", "Failed">>,
     <<"RunningEntities", "Failed">>}

====
